---------------------------- MODULE Spec2Model ----------------------------
(***************************************************************************)
(* A model of the request layer of the SDK (src/src/request.js): sign,     *)
(* setAppId, setHeaders, createApiUrl, handleError, request and the legacy *)
(* _request.  Each promise callback of the source is one action; the       *)
(* collaborators (ajax, AV.User.currentAsync, AV._appRouter.refresh, the   *)
(* code that initialises AV) are the environment.                          *)
(***************************************************************************)
EXTENDS Integers, Sequences, FiniteSets, TLC

(***************************************************************************)
(* JavaScript values.  A value carries its type tag, so that typeof,       *)
(* truthiness and property access are computed as the language does.  A    *)
(* string is a sequence of tokens (characters, or opaque chunks such as a  *)
(* key), so concatenation is \o and "" is << >>.                           *)
(***************************************************************************)
U == [t |-> "undefined"]
Null == [t |-> "null"]
Bool(b) == [t |-> "boolean", v |-> b]
Num(n) == [t |-> "number", v |-> n]
Str(s) == [t |-> "string", v |-> s]
Obj(f) == [t |-> "object", v |-> f]

typeof(x) == IF x.t = "null" THEN "object" ELSE x.t

\* ToBoolean: undefined, null, false, 0 and "" are falsy
Truthy(x) ==
  CASE x.t = "undefined" -> FALSE
    [] x.t = "null" -> FALSE
    [] x.t = "boolean" -> x.v
    [] x.t = "number" -> x.v # 0
    [] x.t = "string" -> x.v # << >>
    [] OTHER -> TRUE

\* a || b
Or(a, b) == IF Truthy(a) THEN a ELSE b

\* The text a value contributes to a template literal or to `+` with a string
ToText(x) ==
  CASE x.t = "undefined" -> <<"undefined">>
    [] x.t = "null" -> <<"null">>
    [] x.t = "string" -> x.v
    [] x.t = "boolean" -> IF x.v THEN <<"true">> ELSE <<"false">>
    [] OTHER -> <<"[value]">>

\* headers[k] = v / obj[k] = v
Put(h, k, val) == [x \in (DOMAIN h) \cup {k} |-> IF x = k THEN val ELSE h[x]]

\* obj.k of a mapping held as a function: undefined when the key is absent
Get(m, k) == IF k \in DOMAIN m THEN m[k] ELSE U

EmptyMap == [x \in {} |-> U]

\* obj.k on a value: undefined on a primitive; never applied to null/undefined
Prop(x, k) == IF x.t = "object" THEN Get(x.v, k) ELSE U

(***************************************************************************)
(* Bounds of the model                                                     *)
(***************************************************************************)
\* dispatch calls that may be in flight together
MaxCalls == 2
\* writes to AV by the initialising collaborator while the model runs
MaxConfigWrites == 1

CallIds == 1..MaxCalls

(***************************************************************************)
(* State                                                                   *)
(***************************************************************************)
VARIABLES
  AV,        \* the AV singleton: credentials, config, serverURLs
  writes,    \* number of writes to AV made so far (bounded)
  calls,     \* per dispatch call: position and the values its closures hold
  trace,     \* per dispatch call: the collaborator events it caused, in order
  out        \* result of the last pure function applied (pure specifications)

vars == <<AV, writes, calls, trace, out>>

(***************************************************************************)
(* sign (request.js 14-21).  `now` is the clock reading, a string of       *)
(* digits held as one token; md5 is kept symbolic and injective.           *)
(***************************************************************************)
md5(text) == <<"md5(">> \o text \o <<")">>

\* mutant: the master marker is never appended
sign_NoMarker(key, isMasterKey, now) ==
  md5(now \o ToText(key)) \o <<",">> \o now

sign(key, isMasterKey, now) ==
  LET signature == md5(now \o ToText(key))
  IN  IF Truthy(isMasterKey)
      THEN signature \o <<",">> \o now \o <<",", "master">>
      ELSE signature \o <<",">> \o now

\* mutant: the key header is set whether or not the signature header is
setAppId_BothHeaders(headers, signKey, av, now) ==
  LET h == IF Truthy(signKey)
           THEN Put(headers, "X-LC-Sign", Str(sign(av.applicationKey, U, now)))
           ELSE headers
  IN  Put(h, "X-LC-Key", av.applicationKey)

\* setAppId (request.js 23-29)
setAppId(headers, signKey, av, now) ==
  IF Truthy(signKey)
  THEN Put(headers, "X-LC-Sign", Str(sign(av.applicationKey, U, now)))
  ELSE Put(headers, "X-LC-Key", av.applicationKey)

\* mutant: the override is tested for truth, so an explicit false falls
\* through to the global default
resolveUseMasterKey_Truthy(av, authOptions) ==
  IF Truthy(Prop(authOptions, "useMasterKey")) THEN TRUE
  ELSE IF typeof(av.useMasterKey) = "boolean" THEN av.useMasterKey.v
  ELSE FALSE

\* the useMasterKey decision of setHeaders (request.js 36-41)
resolveUseMasterKey(av, authOptions) ==
  IF typeof(Prop(authOptions, "useMasterKey")) = "boolean"
  THEN Prop(authOptions, "useMasterKey").v
  ELSE IF typeof(av.useMasterKey) = "boolean" THEN av.useMasterKey.v
  ELSE FALSE

\* the authentication header of setHeaders (request.js 42-55)
setAuthHeader(headers, av, authOptions, signKey, now) ==
  IF resolveUseMasterKey(av, authOptions)
  THEN IF Truthy(av.masterKey)
       THEN IF Truthy(signKey)
            THEN Put(headers, "X-LC-Sign", Str(sign(av.masterKey, Bool(TRUE), now)))
            ELSE Put(headers, "X-LC-Key", Str(ToText(av.masterKey) \o <<",", "master">>))
       ELSE setAppId(headers, signKey, av, now)   \* after console.warn
  ELSE setAppId(headers, signKey, av, now)

\* the name of the user-agent header (request.js 62)
uaHeaderName(av) == IF ~Truthy(av.CLIENT_PLATFORM) THEN "User-Agent" ELSE "X-LC-UA"

\* the synchronous part of setHeaders (request.js 31-62)
setHeadersSync(av, authOptions, signKey, now) ==
  LET h0 == Put(Put(EmptyMap, "X-LC-Id", av.applicationId),
                "Content-Type", Str(<<"application/json;charset=UTF-8">>))
      h1 == setAuthHeader(h0, av, authOptions, signKey, now)
      h2 == IF Truthy(av.hookKey) THEN Put(h1, "X-LC-Hook-Key", av.hookKey) ELSE h1
      h3 == IF av.production # Null
            THEN Put(h2, "X-LC-Prod", Str(ToText(av.production))) ELSE h2
  IN  Put(h3, uaHeaderName(av), av.userAgent)

\* getSessionToken of ./utils: the explicit session token of the AuthOptions
getSessionToken(authOptions) == Prop(authOptions, "sessionToken")

\* mutant: the current user is looked up whether or not a session token was given
sessionStep_IgnoresToken(av, authOptions, headers) ==
  LET sessionToken == getSessionToken(authOptions)
      h == IF Truthy(sessionToken) THEN Put(headers, "X-LC-Session", sessionToken)
           ELSE headers
  IN  IF ~Truthy(av.disableCurrentUser)
      THEN [next |-> "lookup", headers |-> h]
      ELSE [next |-> "resolve", headers |-> h]

\* setHeaders' then-callback (request.js 64-78): what it does with the headers.
\* "lookup" means AV.User.currentAsync() is called and its promise returned.
sessionStep(av, authOptions, headers) ==
  LET sessionToken == getSessionToken(authOptions)
  IN  IF Truthy(sessionToken)
      THEN [next |-> "resolve", headers |-> Put(headers, "X-LC-Session", sessionToken)]
      ELSE IF ~Truthy(av.disableCurrentUser)
           THEN [next |-> "lookup", headers |-> headers]
           ELSE [next |-> "resolve", headers |-> headers]

\* the callback on the current user (request.js 70-75)
afterCurrentUser(currentUser, headers) ==
  IF Truthy(currentUser) /\ Truthy(Prop(currentUser, "_sessionToken"))
  THEN Put(headers, "X-LC-Session", Prop(currentUser, "_sessionToken"))
  ELSE headers

(***************************************************************************)
(* createApiUrl (request.js 81-102)                                        *)
(***************************************************************************)
DefaultService == "api"
DefaultVersion == <<"1", ".", "1">>

createApiUrl(av, service, version, path) ==
  LET svc == IF service = U THEN DefaultService ELSE service.v[1]
      ver == IF version = U THEN DefaultVersion ELSE version.v
      apiURL == Get(av.serverURLs, svc)
  IN  IF ~Truthy(apiURL)
      THEN [ok |-> FALSE, message |-> <<"undefined server URL for ", svc>>]
      ELSE LET base == IF apiURL.v[Len(apiURL.v)] # "/"
                       THEN apiURL.v \o <<"/">> ELSE apiURL.v
               withVersion == base \o ver
           IN  [ok |-> TRUE,
                url |-> IF Truthy(path) THEN withVersion \o path.v ELSE withVersion]

(***************************************************************************)
(* JSON.parse, for the texts a response body is drawn from: a text is a    *)
(* sequence of lexemes; null, a number, and a flat object of               *)
(* "key": scalar members parse, anything else is a SyntaxError.            *)
(***************************************************************************)
NumLexemes == {"0", "1", "5", "101"}
NumLexVal(tok) ==
  CASE tok = "0" -> 0 [] tok = "1" -> 1 [] tok = "5" -> 5 [] OTHER -> 101

StrLexemes == {"\"code\"", "\"error\"", "\"msg\"", "\"other\""}
StrLexVal(tok) ==
  CASE tok = "\"code\"" -> "code" [] tok = "\"error\"" -> "error"
    [] tok = "\"msg\"" -> "msg" [] OTHER -> "other"

IsScalarLexeme(tok) == tok \in NumLexemes \cup StrLexemes \cup {"null"}

ParseScalar(tok) ==
  IF tok \in NumLexemes THEN Num(NumLexVal(tok))
  ELSE IF tok \in StrLexemes THEN Str(<<StrLexVal(tok)>>)
  ELSE Null

\* members of an object from position i on: key : scalar (, key : scalar)* }
RECURSIVE ParseMembers(_, _, _)
ParseMembers(toks, i, acc) ==
  IF i + 3 > Len(toks) THEN [ok |-> FALSE]
  ELSE IF ~(toks[i] \in StrLexemes /\ toks[i + 1] = ":" /\ IsScalarLexeme(toks[i + 2]))
       THEN [ok |-> FALSE]
       ELSE LET acc2 == Put(acc, StrLexVal(toks[i]), ParseScalar(toks[i + 2]))
            IN  IF toks[i + 3] = "}" /\ i + 3 = Len(toks)
                THEN [ok |-> TRUE, value |-> Obj(acc2)]
                ELSE IF toks[i + 3] = ","
                     THEN ParseMembers(toks, i + 4, acc2)
                     ELSE [ok |-> FALSE]

JSONparse(text) ==
  LET toks == ToText(text)
  IN  IF Len(toks) = 1 /\ IsScalarLexeme(toks[1])
      THEN [ok |-> TRUE, value |-> ParseScalar(toks[1])]
      ELSE IF Len(toks) = 2 /\ toks[1] = "{" /\ toks[2] = "}"
           THEN [ok |-> TRUE, value |-> Obj(EmptyMap)]
           ELSE IF Len(toks) > 2 /\ toks[1] = "{"
                THEN ParseMembers(toks, 2, EmptyMap)
                ELSE [ok |-> FALSE]

(***************************************************************************)
(* handleError (request.js 105-124).  Its promise always rejects: with     *)
(* the AVError it builds, or with the TypeError the executor throws when   *)
(* errorJSON is null (new Promise turns an executor's throw into a         *)
(* rejection).                                                             *)
(***************************************************************************)
\* new AVError(code, message) of ./error: the {code, error} value callers see
AVError(code, message) == [kind |-> "AVError", code |-> code, error |-> message]

TypeError == [kind |-> "TypeError"]

\* the errorJSON handleError ends with (request.js 107-119)
errorJSONOf(error) ==
  LET fallback == Obj([x \in {"code", "error"} |->
                         IF x = "code" THEN Or(Prop(error, "code"), Num(-1))
                         ELSE Or(Prop(error, "message"), Prop(error, "responseText"))])
  IN  IF Truthy(Prop(error, "response")) /\ Truthy(Prop(Prop(error, "response"), "code"))
      THEN Prop(error, "response")
      ELSE IF Truthy(Prop(error, "responseText"))
           THEN LET parsed == JSONparse(Prop(error, "responseText"))
                IN  IF parsed.ok THEN parsed.value ELSE fallback
           ELSE fallback

\* the value handleError's promise rejects with (request.js 105-124)
handleError(error) ==
  LET errorJSON == errorJSONOf(error)
  IN  IF errorJSON.t \in {"null", "undefined"}
      THEN TypeError
      ELSE AVError(Prop(errorJSON, "code"), Prop(errorJSON, "error"))

(***************************************************************************)
(* The legacy adapter _request (request.js 139-158)                        *)
(***************************************************************************)
\* String.prototype.toLowerCase on the letters a method is spelled with
LowerChar(ch) ==
  CASE ch = "G" -> "g" [] ch = "E" -> "e" [] ch = "T" -> "t"
    [] ch = "P" -> "p" [] ch = "O" -> "o" [] ch = "S" -> "s"
    [] OTHER -> ch

toLowerCase(str) == [i \in 1..Len(str) |-> LowerChar(str[i])]

\* the path built from the present segments (request.js 140-143)
legacyPath(route, className, objectId) ==
  LET p1 == IF Truthy(route) THEN <<"/">> \o ToText(route) ELSE << >>
      p2 == IF Truthy(className) THEN p1 \o <<"/">> \o ToText(className) ELSE p1
  IN  IF Truthy(objectId) THEN p2 \o <<"/">> \o ToText(objectId) ELSE p2

\* the migration checks (request.js 145-146): the message thrown, or none
legacyReservedKey(data) ==
  IF Truthy(data) /\ Truthy(Prop(data, "_fetchWhenSave"))
  THEN <<"_fetchWhenSave should be in the query">>
  ELSE IF Truthy(data) /\ Truthy(Prop(data, "_where"))
       THEN <<"_where should be in the query">>
       ELSE << >>

\* the own keys underscore's extend copies from a source (none from a
\* source that is no object)
KeysOf(x) == IF x.t = "object" THEN DOMAIN x.v ELSE {}

\* mutant: the sources are applied in the other order
extend_QueryWins(query, data) ==
  Obj([k \in KeysOf(query) \cup KeysOf(data) |->
         IF k \in KeysOf(query) THEN query.v[k] ELSE data.v[k]])

\* extend({}, query, data): the later source overwrites
extend(query, data) ==
  Obj([k \in KeysOf(query) \cup KeysOf(data) |->
         IF k \in KeysOf(data) THEN data.v[k] ELSE query.v[k]])

\* the GET adaptation (request.js 147-150): the query and data handed on
adaptMethod(method, data, query) ==
  IF Truthy(method) /\ toLowerCase(ToText(method)) = <<"g", "e", "t">>
  THEN [query |-> extend(query, data), data |-> Null]
  ELSE [query |-> query, data |-> data]

\* a parameter's default value: it replaces undefined only
Default(x, d) == IF x = U THEN d ELSE x

(***************************************************************************)
(* request (request.js 126-136), one action per callback.                  *)
(*   idle     not called yet                                               *)
(*   threw    request threw synchronously                                  *)
(*   headers  request returned; setHeaders' then-callback is queued        *)
(*   lookup   AV.User.currentAsync() is outstanding                        *)
(*   ready    the headers promise is fulfilled; headers => ajax(...) is    *)
(*            queued                                                       *)
(*   ajax     the transport call is outstanding                            *)
(*   resolved / rejected   the promise request returned is settled         *)
(***************************************************************************)
Error(message) == [kind |-> "Error", message |-> message]

NoDesc == [service |-> U, version |-> U, method |-> U, path |-> U,
           query |-> U, data |-> U, authOptions |-> U]

NoLegacy == [used |-> FALSE, method |-> U, data |-> U, query |-> U]

NoArgs == [invoked |-> FALSE]

NoReply == [settled |-> FALSE]

\* a call: its position, the arguments and the values its closures hold
\* (desc, url, headers), and what was observed of it: AV when request was
\* called (avAt), AV._config.disableCurrentUser as the then-callback read it
\* (lookupOff), the user currentAsync gave (user), the arguments ajax got
\* (sent), what ajax settled with (reply), and how the call ended (result)
IdleCall == [pc |-> "idle", desc |-> NoDesc, legacy |-> NoLegacy, avAt |-> U,
             url |-> << >>, headers |-> EmptyMap, lookupOff |-> U, user |-> U,
             sent |-> NoArgs, reply |-> NoReply, result |-> U]

\* mutant: the keys are not looked at
Initialized_IdOnly(av) == Truthy(av.applicationId)

\* the precondition of request (request.js 127)
Initialized(av) ==
  Truthy(av.applicationId) /\ (Truthy(av.applicationKey) \/ Truthy(av.masterKey))

\* mutant: request asks setHeaders for signed transmission
requestSync_Signed(av, desc, now) ==
  IF ~Initialized(av)
  THEN [pc |-> "threw", events |-> << >>, url |-> << >>, headers |-> EmptyMap,
        result |-> Error(<<"Not initialized">>)]
  ELSE LET u == createApiUrl(av, desc.service, desc.version, desc.path)
       IN  IF ~u.ok
           THEN [pc |-> "threw", events |-> <<"refresh">>, url |-> << >>,
                 headers |-> EmptyMap, result |-> Error(u.message)]
           ELSE [pc |-> "headers", events |-> <<"refresh", "url">>, url |-> u.url,
                 headers |-> setHeadersSync(av, Default(desc.authOptions, Obj(EmptyMap)),
                                            Bool(TRUE), now),
                 result |-> U]

\* the synchronous part of request (request.js 126-132): where the call
\* stands when request returns or throws, and the collaborator events so far
requestSync(av, desc, now) ==
  IF ~Initialized(av)
  THEN [pc |-> "threw", events |-> << >>, url |-> << >>, headers |-> EmptyMap,
        result |-> Error(<<"Not initialized">>)]
  ELSE LET u == createApiUrl(av, desc.service, desc.version, desc.path)
       IN  IF ~u.ok
           THEN [pc |-> "threw", events |-> <<"refresh">>, url |-> << >>,
                 headers |-> EmptyMap, result |-> Error(u.message)]
           ELSE [pc |-> "headers", events |-> <<"refresh", "url">>, url |-> u.url,
                 headers |-> setHeadersSync(av, Default(desc.authOptions, Obj(EmptyMap)),
                                            U, now),
                 result |-> U]

\* a call of request with descriptor desc
Dispatch(c, desc, legacy, now) ==
  LET d == [desc EXCEPT !.data = Default(desc.data, Obj(EmptyMap))]
      r == requestSync(AV, d, now)
  IN  /\ calls' = [calls EXCEPT ![c] =
                     [IdleCall EXCEPT !.pc = r.pc, !.desc = d, !.legacy = legacy,
                                      !.avAt = AV, !.url = r.url,
                                      !.headers = r.headers, !.result = r.result]]
      /\ trace' = [trace EXCEPT ![c] = r.events]
      /\ UNCHANGED <<AV, writes, out>>

(***************************************************************************)
(* The values the environment supplies                                     *)
(***************************************************************************)
OneKey(k, val) == [x \in {k} |-> val]

Times == {<<"1500000000000">>, <<"1500000000001">>}

TokA == Str(<<"tokA">>)
UserTok == Str(<<"userTok">>)
EmptyStr == Str(<< >>)

\* AuthOptions of the calls of the concurrent specification
AuthOptionsMain ==
  { U,
    Obj(OneKey("sessionToken", TokA)),
    Obj(OneKey("sessionToken", EmptyStr)),
    Obj(OneKey("useMasterKey", Bool(TRUE))),
    Obj(OneKey("useMasterKey", Bool(FALSE))) }

\* what AV.User.currentAsync() may resolve with
CurrentUsers ==
  { Null,
    Obj(OneKey("_sessionToken", EmptyStr)),
    Obj(OneKey("_sessionToken", UserTok)) }

ServerError == Obj([x \in {"code", "error"} |->
                      IF x = "code" THEN Num(101) ELSE Str(<<"not found">>)])

JsonErrorText == Str(<<"{", "\"code\"", ":", "1", ",", "\"error\"", ":", "\"msg\"", "}">>)

\* what ajax may reject with, in the concurrent specification
RawErrorsMain ==
  { Obj(OneKey("response", ServerError)),
    Obj(OneKey("responseText", Str(<<"null">>))),
    Obj(OneKey("message", Str(<<"timeout">>))) }

\* what ajax may resolve with
Payloads == { Obj(OneKey("results", Str(<<"r1">>))), Obj(OneKey("results", Str(<<"r2">>))) }

\* what AV.User.currentAsync() may reject with
LookupFailure == [kind |-> "raw", value |-> Str(<<"storage failure">>)]

ApiBase == Str(<<"https://x.example">>)

\* the AV singleton as initialisation may leave it
Configs ==
  [ applicationId : {U, Str(<<"appId">>)},
    applicationKey : {U, Str(<<"appKey">>)},
    masterKey : {U, Str(<<"masterKey">>)},
    hookKey : {U},
    useMasterKey : {U, Bool(TRUE), Bool(FALSE)},
    production : {Null},
    userAgent : {Str(<<"LeanCloud-JS-SDK">>)},
    disableCurrentUser : {Bool(FALSE), Bool(TRUE)},
    serverURLs : {EmptyMap, OneKey("api", ApiBase)},
    CLIENT_PLATFORM : {U} ]

(***************************************************************************)
(* Actions                                                                 *)
(***************************************************************************)
\* mutant: the catch handler returns the error instead of rejecting with it
afterAjax_Swallow(reply) ==
  IF reply.ok
  THEN [pc |-> "resolved", result |-> [kind |-> "payload", value |-> reply.value]]
  ELSE [pc |-> "resolved", result |-> handleError(reply.value)]

\* ajax(...).catch(handleError) (request.js 133-134): how the promise of
\* request settles once ajax has settled; handleError's promise only rejects
afterAjax(reply) ==
  IF reply.ok
  THEN [pc |-> "resolved", result |-> [kind |-> "payload", value |-> reply.value]]
  ELSE [pc |-> "rejected", result |-> handleError(reply.value)]

\* calls take the call ids in order
NextIdle(c) == calls[c].pc = "idle" /\ \A d \in CallIds : d < c => calls[d].pc # "idle"

\* a caller (as the leaderboard operations do) calls request
Request(c) ==
  /\ NextIdle(c)
  /\ \E service \in {U, Str(<<"push">>)}, authOptions \in AuthOptionsMain, now \in Times :
       Dispatch(c, [service |-> service, version |-> U,
                    method |-> Str(<<"P", "O", "S", "T">>),
                    path |-> Str(<<"/", "leaderboard">>),
                    query |-> U, data |-> U, authOptions |-> authOptions],
                NoLegacy, now)

\* setHeaders' then-callback runs (request.js 64-78)
HeadersThen(c) ==
  /\ calls[c].pc = "headers"
  /\ LET r == sessionStep(AV, Default(calls[c].desc.authOptions, Obj(EmptyMap)),
                          calls[c].headers)
     IN  /\ calls' = [calls EXCEPT ![c].pc = IF r.next = "lookup" THEN "lookup" ELSE "ready",
                                   ![c].headers = r.headers,
                                   ![c].lookupOff = Bool(Truthy(AV.disableCurrentUser))]
         /\ trace' = [trace EXCEPT ![c] =
                        IF r.next = "lookup" THEN Append(@, "currentAsync")
                        ELSE Append(@, "headers")]
  /\ UNCHANGED <<AV, writes, out>>

\* AV.User.currentAsync() resolves (request.js 70-75)
CurrentUserResolves(c) ==
  /\ calls[c].pc = "lookup"
  /\ \E currentUser \in CurrentUsers :
       calls' = [calls EXCEPT ![c].pc = "ready", ![c].user = currentUser,
                              ![c].headers = afterCurrentUser(currentUser, @)]
  /\ trace' = [trace EXCEPT ![c] = Append(@, "headers")]
  /\ UNCHANGED <<AV, writes, out>>

\* AV.User.currentAsync() rejects: setHeaders' promise rejects, and request's
\* then has no rejection handler (request.js 132-135)
CurrentUserRejects(c) ==
  /\ calls[c].pc = "lookup"
  /\ calls' = [calls EXCEPT ![c].pc = "rejected", ![c].result = LookupFailure]
  /\ UNCHANGED <<AV, writes, trace, out>>

\* headers => ajax({ method, url, query, data, headers }) runs (request.js 133)
InvokeAjax(c) ==
  /\ calls[c].pc = "ready"
  /\ calls' = [calls EXCEPT ![c].pc = "ajax",
                            ![c].sent = [invoked |-> TRUE,
                                         method |-> calls[c].desc.method,
                                         url |-> calls[c].url,
                                         query |-> calls[c].desc.query,
                                         data |-> calls[c].desc.data,
                                         headers |-> calls[c].headers]]
  /\ trace' = [trace EXCEPT ![c] = Append(@, "ajax")]
  /\ UNCHANGED <<AV, writes, out>>

\* the transport succeeds: the promise of request takes its payload
AjaxSucceeds(c) ==
  /\ calls[c].pc = "ajax"
  /\ \E payload \in Payloads :
       LET reply == [settled |-> TRUE, ok |-> TRUE, value |-> payload]
       IN  calls' = [calls EXCEPT ![c].pc = afterAjax(reply).pc, ![c].reply = reply,
                                  ![c].result = afterAjax(reply).result]
  /\ trace' = [trace EXCEPT ![c] = Append(@, "success")]
  /\ UNCHANGED <<AV, writes, out>>

\* the transport fails: .catch(handleError) (request.js 134)
AjaxFails(c) ==
  /\ calls[c].pc = "ajax"
  /\ \E error \in RawErrorsMain :
       LET reply == [settled |-> TRUE, ok |-> FALSE, value |-> error]
       IN  calls' = [calls EXCEPT ![c].pc = afterAjax(reply).pc, ![c].reply = reply,
                                  ![c].result = afterAjax(reply).result]
  /\ trace' = [trace EXCEPT ![c] = Append(@, "failure")]
  /\ UNCHANGED <<AV, writes, out>>

\* the application writes a field of AV while calls are in flight
WriteAV(field, val) ==
  /\ writes < MaxConfigWrites
  /\ AV[field] # val
  /\ AV' = [AV EXCEPT ![field] = val]
  /\ writes' = writes + 1
  /\ UNCHANGED <<calls, trace, out>>

\* AV._config.disableCurrentUser is switched
SetDisableCurrentUser == \E b \in {Bool(FALSE), Bool(TRUE)} : WriteAV("disableCurrentUser", b)

Init ==
  /\ AV \in Configs
  /\ writes = 0
  /\ calls = [c \in CallIds |-> IdleCall]
  /\ trace = [c \in CallIds |-> << >>]
  /\ out = U

Next ==
  \/ \E c \in CallIds : Request(c)
  \/ \E c \in CallIds : HeadersThen(c)
  \/ \E c \in CallIds : CurrentUserResolves(c)
  \/ \E c \in CallIds : CurrentUserRejects(c)
  \/ \E c \in CallIds : InvokeAjax(c)
  \/ \E c \in CallIds : AjaxSucceeds(c)
  \/ \E c \in CallIds : AjaxFails(c)
  \/ SetDisableCurrentUser

Spec == Init /\ [][Next]_vars

(***************************************************************************)
(* The legacy entry: _request (request.js 139-158) and then request        *)
(***************************************************************************)
Methods ==
  { U, Str(<<"G", "E", "T">>), Str(<<"g", "e", "t">>), Str(<<"G", "e", "t">>),
    Str(<<"P", "O", "S", "T">>) }

\* data mappings: plain keys, and the reserved keys with truthy and falsy values
LegacyData ==
  { U, Null, Obj(EmptyMap),
    Obj(OneKey("a", Num(1))),
    Obj([x \in {"a", "b"} |-> IF x = "a" THEN Num(1) ELSE Num(3)]),
    Obj(OneKey("_fetchWhenSave", Bool(TRUE))),
    Obj(OneKey("_fetchWhenSave", Bool(FALSE))),
    Obj(OneKey("_where", Obj(OneKey("a", Num(1))))),
    Obj(OneKey("_where", Num(0))),
    Obj(OneKey("_where", EmptyStr)),
    Obj(OneKey("_where", Null)) }

LegacyQueries ==
  { U, Obj(OneKey("b", Num(2))),
    Obj([x \in {"a", "b"} |-> IF x = "a" THEN Num(7) ELSE Num(2)]) }

LegacyRequest(c) ==
  /\ NextIdle(c)
  /\ \E method \in Methods, data0 \in LegacyData, query \in LegacyQueries,
        objectId \in {U, Str(<<"id1">>)}, now \in Times :
       LET data == Default(data0, Obj(EmptyMap))
           legacy == [used |-> TRUE, method |-> method, data |-> data0, query |-> query]
           reserved == legacyReservedKey(data)
           adapted == adaptMethod(method, data, query)
       IN  IF reserved # << >>
           THEN /\ calls' = [calls EXCEPT ![c] =
                               [IdleCall EXCEPT !.pc = "threw", !.legacy = legacy,
                                                !.avAt = AV, !.result = Error(reserved)]]
                /\ UNCHANGED <<AV, writes, trace, out>>
           ELSE Dispatch(c, [service |-> U, version |-> U, method |-> method,
                             path |-> Str(legacyPath(Str(<<"classes">>), Str(<<"Todo">>),
                                                     objectId)),
                             query |-> adapted.query, data |-> adapted.data,
                             authOptions |-> U],
                         legacy, now)

ValidConfig ==
  [ applicationId |-> Str(<<"appId">>), applicationKey |-> Str(<<"appKey">>),
    masterKey |-> U, hookKey |-> U, useMasterKey |-> U, production |-> Null,
    userAgent |-> Str(<<"LeanCloud-JS-SDK">>), disableCurrentUser |-> Bool(FALSE),
    serverURLs |-> OneKey("api", ApiBase), CLIENT_PLATFORM |-> U ]

InitLegacy ==
  /\ AV \in {ValidConfig, [ValidConfig EXCEPT !.disableCurrentUser = Bool(TRUE)]}
  /\ writes = 0
  /\ calls = [c \in CallIds |-> IdleCall]
  /\ trace = [c \in CallIds |-> << >>]
  /\ out = U

NextLegacy ==
  \/ LegacyRequest(1)
  \/ \E c \in CallIds : HeadersThen(c)
  \/ \E c \in CallIds : CurrentUserResolves(c)
  \/ \E c \in CallIds : CurrentUserRejects(c)
  \/ \E c \in CallIds : InvokeAjax(c)
  \/ \E c \in CallIds : AjaxSucceeds(c)
  \/ \E c \in CallIds : AjaxFails(c)

SpecLegacy == InitLegacy /\ [][NextLegacy]_vars

(***************************************************************************)
(* Properties of the concurrent specification Spec                         *)
(***************************************************************************)
Events(c) == {trace[c][i] : i \in 1..Len(trace[c])}

Count(seq, e) == Cardinality({i \in 1..Len(seq) : seq[i] = e})

IsPrefix(p, q) == Len(p) <= Len(q) /\ \A i \in 1..Len(p) : p[i] = q[i]

Called(c) == calls[c].pc # "idle"

\* request returned a promise for call c
Dispatched(c) == calls[c].pc \notin {"idle", "threw"}

ServiceOf(c) ==
  IF calls[c].desc.service = U THEN "api" ELSE calls[c].desc.service.v[1]

\* a configuration error held when call c was made
ConfigError(c) ==
  LET av == calls[c].avAt
  IN  \/ av.applicationId = U
      \/ av.applicationKey = U /\ av.masterKey = U
      \/ ServiceOf(c) \notin DOMAIN av.serverURLs

\* C1: a call of request made while a configuration error holds (no
\* application id, neither key, or no base URL for the service) throws
\* synchronously; ajax is not invoked and the current user is not asked for it.
C1_ConfigErrorThrows ==
  \A c \in CallIds :
    (Called(c) /\ ConfigError(c)) =>
      /\ calls[c].pc = "threw"
      /\ calls[c].result.kind = "Error"
      /\ "ajax" \notin Events(c)
      /\ "currentAsync" \notin Events(c)
      /\ ~calls[c].sent.invoked

\* a call for a service without base URL threw after the router refresh,
\* while another call of the same configuration has reached ajax
C1_Witness ==
  \E c, d \in CallIds :
    /\ calls[c].pc = "threw" /\ ConfigError(c) /\ trace[c] = <<"refresh">>
    /\ calls[d].pc = "ajax"

IsNormalizedError(r) == r.kind = "AVError"

\* C2: whatever the promise of request rejects with is a NormalizedError
\* {code, error}: for every shape of transport failure, and when the lookup
\* of the current user rejects.
C2_RejectionsAreNormalized ==
  \A c \in CallIds : calls[c].pc = "rejected" => IsNormalizedError(calls[c].result)

AuthOptionsOf(c) == Default(calls[c].desc.authOptions, Obj(EmptyMap))

NonEmptyString(x) == x.t = "string" /\ x.v # << >>

ExplicitToken(c) == NonEmptyString(Prop(AuthOptionsOf(c), "sessionToken"))

Lookups(c) == Count(trace[c], "currentAsync")

HasSessionHeader(c) == "X-LC-Session" \in DOMAIN calls[c].headers

\* C4: per call, with calls in flight together: with an explicit session
\* token the current user is never asked and the session header is that
\* token; with none and the lookup enabled (as the then-callback reads the
\* flag) the current user is asked exactly once; with none and the lookup
\* disabled it is never asked and no session header is set.  The header from a
\* lookup is set only when the user has a non-empty session token.
C4_SessionLookupPerCall ==
  \A c \in CallIds :
    /\ Lookups(c) <= 1
    /\ calls[c].lookupOff = U => Lookups(c) = 0 /\ ~HasSessionHeader(c)
    /\ calls[c].lookupOff # U =>
         /\ ExplicitToken(c) =>
              /\ Lookups(c) = 0
              /\ HasSessionHeader(c)
              /\ calls[c].headers["X-LC-Session"] = Prop(AuthOptionsOf(c), "sessionToken")
         /\ (~ExplicitToken(c) /\ calls[c].lookupOff = Bool(FALSE)) => Lookups(c) = 1
         /\ (~ExplicitToken(c) /\ calls[c].lookupOff = Bool(TRUE)) =>
              Lookups(c) = 0 /\ ~HasSessionHeader(c)
         /\ Lookups(c) = 1 =>
              /\ HasSessionHeader(c) <=>
                   ("headers" \in Events(c)
                      /\ NonEmptyString(Prop(calls[c].user, "_sessionToken")))
              /\ HasSessionHeader(c) =>
                   calls[c].headers["X-LC-Session"] = Prop(calls[c].user, "_sessionToken")

\* two calls in flight: one sent with its explicit token without a lookup, the
\* other with the token of the user its own lookup gave
C4_Witness ==
  \E c, d \in CallIds :
    /\ calls[c].pc = "ajax" /\ ExplicitToken(c) /\ Lookups(c) = 0
    /\ Prop(Obj(calls[c].sent.headers), "X-LC-Session") = TokA
    /\ calls[d].pc = "ajax" /\ Lookups(d) = 1
    /\ Prop(Obj(calls[d].sent.headers), "X-LC-Session") = UserTok

HasMarker(val) ==
  /\ val.t = "string"
  /\ Len(val.v) >= 2
  /\ val.v[Len(val.v)] = "master"
  /\ val.v[Len(val.v) - 1] = ","

\* the decision the precedence prescribes
ExpectedElevated(override, global) ==
  IF override \in {Bool(TRUE), Bool(FALSE)} THEN override = Bool(TRUE)
  ELSE IF global \in {Bool(TRUE), Bool(FALSE)} THEN global = Bool(TRUE)
  ELSE FALSE

C5_Decision ==
  \A c \in CallIds :
    (Dispatched(c) /\ calls[c].avAt.masterKey # U) =>
      (HasMarker(calls[c].headers["X-LC-Key"]) <=>
         ExpectedElevated(Prop(AuthOptionsOf(c), "useMasterKey"),
                          calls[c].avAt.useMasterKey))

C5_Frame == (calls' # calls) => (AV' = AV)

\* C5: the master key is used for a call as the AuthOptions override says when
\* that is true or false (false suppressing a global true), else as
\* AV._config.useMasterKey says when that is true or false, else not; and no
\* step of a call changes AV, so the next call without an override follows the
\* global default.
C5_UseMasterKeyPrecedence == []C5_Decision /\ [][C5_Frame]_vars

\* under a global default of true: a call with the override false went out
\* with the application key, and the next, without override, with the master key
C5_Witness ==
  /\ Dispatched(1) /\ Dispatched(2)
  /\ calls[1].avAt.useMasterKey = Bool(TRUE) /\ calls[1].avAt.masterKey # U
  /\ Prop(AuthOptionsOf(1), "useMasterKey") = Bool(FALSE)
  /\ calls[1].headers["X-LC-Key"] = calls[1].avAt.applicationKey
  /\ calls[2].desc.authOptions = U
  /\ AV.useMasterKey = Bool(TRUE)
  /\ HasMarker(calls[2].headers["X-LC-Key"])

WithLookup == <<"refresh", "url", "currentAsync", "headers", "ajax">>
WithoutLookup == <<"refresh", "url", "headers", "ajax">>

\* C8: for a call that passed the synchronous checks the events come in the
\* order refresh, URL, (lookup,) headers, ajax; ajax is invoked at most once,
\* with the resolved headers and the URL; the promise resolves with the
\* payload of ajax when ajax succeeds and rejects when it fails.
C8_OrderAndOutcome ==
  \A c \in CallIds :
    Dispatched(c) =>
      /\ \E end \in {"success", "failure"} :
           \/ IsPrefix(trace[c], Append(WithLookup, end))
           \/ IsPrefix(trace[c], Append(WithoutLookup, end))
      /\ Len(trace[c]) >= 2
      /\ Count(trace[c], "ajax") <= 1
      /\ calls[c].sent.invoked <=> "ajax" \in Events(c)
      /\ calls[c].sent.invoked =>
           /\ "headers" \in Events(c)
           /\ calls[c].sent.headers = calls[c].headers
           /\ calls[c].sent.url = calls[c].url
      /\ calls[c].reply.settled => calls[c].sent.invoked
      /\ calls[c].pc = "resolved" <=> (calls[c].reply.settled /\ calls[c].reply.ok)
      /\ calls[c].pc = "resolved" =>
           calls[c].result = [kind |-> "payload", value |-> calls[c].reply.value]
      /\ (calls[c].reply.settled /\ ~calls[c].reply.ok) => calls[c].pc = "rejected"

\* a call that looked the user up resolved with the payload of ajax, and
\* another rejected after ajax failed
C8_Witness ==
  \E c, d \in CallIds :
    /\ calls[c].pc = "resolved" /\ trace[c] = Append(WithLookup, "success")
    /\ calls[c].result.value \in Payloads
    /\ calls[d].pc = "rejected" /\ trace[d] = Append(WithoutLookup, "failure")

(***************************************************************************)
(* handleError applied to the shapes a transport error may have            *)
(***************************************************************************)
ZeroCodeResponse == Obj([x \in {"code", "error"} |->
                           IF x = "code" THEN Num(0) ELSE Str(<<"zero">>)])

RawErrors ==
  { Obj(f) : f \in
      [ code : {U, Num(0), Num(7)},
        message : {U, Str(<<"timeout">>)},
        responseText : {U, EmptyStr, JsonErrorText, Str(<<"{", "}">>), Str(<<"null">>),
                        Str(<<"5">>), Str(<<"<html>">>)},
        response : {U, ZeroCodeResponse, ServerError,
                    Obj(OneKey("error", Str(<<"no code">>)))} ] }

Normalize ==
  /\ out.op = "handleError" /\ ~out.done
  /\ out' = [out EXCEPT !.done = TRUE, !.result = handleError(out.error)]
  /\ UNCHANGED <<AV, writes, calls, trace>>

InitNormalize ==
  /\ AV = ValidConfig
  /\ writes = 0
  /\ calls = [c \in CallIds |-> IdleCall]
  /\ trace = [c \in CallIds |-> << >>]
  /\ \E error \in RawErrors :
       out = [op |-> "handleError", done |-> FALSE, error |-> error, result |-> U]

SpecNormalize == InitNormalize /\ [][Normalize]_vars

\* what the three tiers prescribe for a raw error
C3_Expected(error) ==
  LET response == Prop(error, "response")
      text == Prop(error, "responseText")
      parsed == JSONparse(text)
  IN  IF response.t = "object" /\ Prop(response, "code").t = "number"
      THEN AVError(Prop(response, "code"), Prop(response, "error"))
      ELSE IF NonEmptyString(text) /\ parsed.ok /\ parsed.value.t = "object"
           THEN AVError(Prop(parsed.value, "code"), Prop(parsed.value, "error"))
           ELSE AVError(Or(Prop(error, "code"), Num(-1)),
                        Or(Prop(error, "message"), text))

\* C3: handleError gives the code/error of a nested response that has a
\* numeric code (0 included); else those of a textual body that parses to an
\* object; else {code: error.code or -1, error: error.message or
\* error.responseText}.
C3_ThreeTierPrecedence ==
  (out.op = "handleError" /\ out.done) => out.result = C3_Expected(out.error)

(***************************************************************************)
(* setHeaders' synchronous part applied to every configuration, with and   *)
(* without signKey                                                         *)
(***************************************************************************)
AuthOptionsAll ==
  AuthOptionsMain \cup
  { Obj(EmptyMap),
    Obj(OneKey("useMasterKey", Null)),
    Obj(OneKey("useMasterKey", Str(<<"true">>))),
    Obj([x \in {"sessionToken", "useMasterKey"} |->
           IF x = "sessionToken" THEN TokA ELSE Bool(TRUE)]) }

ConfigsHeaders ==
  [ applicationId : {Str(<<"appId">>)},
    applicationKey : {U, Str(<<"appKey">>)},
    masterKey : {U, Str(<<"masterKey">>)},
    hookKey : {U, Str(<<"hookKey">>)},
    useMasterKey : {U, Bool(TRUE), Bool(FALSE)},
    production : {Null, Bool(TRUE), Bool(FALSE)},
    userAgent : {Str(<<"LeanCloud-JS-SDK">>)},
    disableCurrentUser : {Bool(FALSE)},
    serverURLs : {OneKey("api", ApiBase)},
    CLIENT_PLATFORM : {U, Str(<<"Weapp">>)} ]

BuildHeaders ==
  /\ out.op = "setHeaders" /\ ~out.done
  /\ \E authOptions \in AuthOptionsAll, signKey \in {U, Bool(TRUE), Bool(FALSE)},
        now \in Times :
       out' = [op |-> "setHeaders", done |-> TRUE, authOptions |-> authOptions,
               signKey |-> signKey, now |-> now,
               headers |-> setHeadersSync(AV, Default(authOptions, Obj(EmptyMap)),
                                          signKey, now)]
  /\ UNCHANGED <<AV, writes, calls, trace>>

InitHeaders ==
  /\ AV \in ConfigsHeaders
  /\ writes = 0
  /\ calls = [c \in CallIds |-> IdleCall]
  /\ trace = [c \in CallIds |-> << >>]
  /\ out = [op |-> "setHeaders", done |-> FALSE]

SpecHeaders == InitHeaders /\ [][BuildHeaders]_vars

HeadersBuilt == out.op = "setHeaders" /\ out.done

\* C6: the headers built for a request hold exactly one of X-LC-Sign and
\* X-LC-Key: X-LC-Sign exactly when signKey is given, X-LC-Key exactly when
\* it is not.
C6_ExactlyOneAuthHeader ==
  HeadersBuilt =>
    LET sig == "X-LC-Sign" \in DOMAIN out.headers
        key == "X-LC-Key" \in DOMAIN out.headers
    IN  /\ sig # key
        /\ sig <=> out.signKey = Bool(TRUE)
        /\ key <=> out.signKey \in {U, Bool(FALSE)}

\* the master key is asked for but unset, with signed transmission: the
\* fallback sets the signature header alone
C6_Witness ==
  /\ HeadersBuilt
  /\ out.signKey = Bool(TRUE)
  /\ Prop(Default(out.authOptions, Obj(EmptyMap)), "useMasterKey") = Bool(TRUE)
  /\ AV.masterKey = U
  /\ "X-LC-Sign" \in DOMAIN out.headers
  /\ "X-LC-Key" \notin DOMAIN out.headers

\* the value of the authentication header that was set
AuthValue ==
  IF "X-LC-Sign" \in DOMAIN out.headers
  THEN out.headers["X-LC-Sign"] ELSE out.headers["X-LC-Key"]

\* C7: the authentication header ends in ",master" exactly when the master
\* key is asked for and set, signed or plain, and is then made from the
\* master key; otherwise it is made from the application key, without the
\* marker, and the headers are built all the same.
C7_MasterMarker ==
  HeadersBuilt =>
    LET elevated ==
          /\ ExpectedElevated(Prop(Default(out.authOptions, Obj(EmptyMap)), "useMasterKey"),
                              AV.useMasterKey)
          /\ AV.masterKey # U
        signed == out.signKey = Bool(TRUE)
        key == IF elevated THEN AV.masterKey ELSE AV.applicationKey
        marker == IF elevated THEN <<",", "master">> ELSE << >>
    IN  /\ HasMarker(AuthValue) <=> elevated
        /\ signed =>
             AuthValue = Str(md5(out.now \o ToText(key)) \o <<",">> \o out.now \o marker)
        /\ (~signed /\ elevated) => AuthValue = Str(key.v \o marker)
        /\ (~signed /\ ~elevated) => AuthValue = key
        /\ {"X-LC-Id", "Content-Type"} \subseteq DOMAIN out.headers

\* signed transmission with the master key asked for by the override and set
C7_Witness ==
  /\ HeadersBuilt
  /\ out.signKey = Bool(TRUE)
  /\ Prop(Default(out.authOptions, Obj(EmptyMap)), "useMasterKey") = Bool(TRUE)
  /\ AV.useMasterKey = Bool(FALSE)
  /\ AV.masterKey # U
  /\ HasMarker(out.headers["X-LC-Sign"])

(***************************************************************************)
(* Properties of the legacy entry, under SpecLegacy                        *)
(***************************************************************************)
ReservedKeys == {"_fetchWhenSave", "_where"}

\* _request handed the call on to request
Forwarded(c) == calls[c].legacy.used /\ calls[c].desc.path # U

\* C9: through _request, data that contains _fetchWhenSave or _where,
\* whatever the value of the key, fails synchronously, and neither the router
\* refresh nor ajax happens for the call.
C9_ReservedKeysThrow ==
  \A c \in CallIds :
    (calls[c].legacy.used /\ KeysOf(calls[c].legacy.data) \cap ReservedKeys # {}) =>
      /\ calls[c].pc = "threw"
      /\ trace[c] = << >>

GetSpellings == {Str(<<"G", "E", "T">>), Str(<<"g", "e", "t">>), Str(<<"G", "e", "t">>)}

\* for a method that is not GET, data (the empty object when omitted) and
\* query are passed on as given
LegacyPassThrough(c) ==
  /\ calls[c].desc.data = Default(calls[c].legacy.data, Obj(EmptyMap))
  /\ calls[c].desc.query = calls[c].legacy.query
  /\ calls[c].sent.invoked =>
       /\ calls[c].sent.query = calls[c].legacy.query
       /\ calls[c].sent.data = calls[c].desc.data

\* for GET, the query passed on holds the keys of query and of data, and the
\* body is null
LegacyGetKeys(c) ==
  /\ calls[c].desc.query.t = "object"
  /\ DOMAIN calls[c].desc.query.v =
       KeysOf(calls[c].legacy.query) \cup KeysOf(calls[c].legacy.data)
  /\ calls[c].desc.data = Null
  /\ calls[c].sent.invoked =>
       calls[c].sent.query = calls[c].desc.query /\ calls[c].sent.data = Null

\* C10 as stated: for GET in any letter case the query passed on holds every
\* key of query and of data, a key of both keeping the value of query, and
\* the body is null; for another method data and query are passed on as given.
C10_QueryKeptOnConflict ==
  \A c \in CallIds :
    Forwarded(c) =>
      IF calls[c].legacy.method \in GetSpellings
      THEN /\ LegacyGetKeys(c)
           /\ \A k \in DOMAIN calls[c].desc.query.v :
                calls[c].desc.query.v[k] =
                  IF k \in KeysOf(calls[c].legacy.query)
                  THEN calls[c].legacy.query.v[k] ELSE calls[c].legacy.data.v[k]
      ELSE LegacyPassThrough(c)

\* C10 amended: as stated, but a key of both takes the value of data.
C10_DataOverridesOnGet ==
  \A c \in CallIds :
    Forwarded(c) =>
      IF calls[c].legacy.method \in GetSpellings
      THEN /\ LegacyGetKeys(c)
           /\ \A k \in DOMAIN calls[c].desc.query.v :
                calls[c].desc.query.v[k] =
                  IF k \in KeysOf(calls[c].legacy.data)
                  THEN calls[c].legacy.data.v[k] ELSE calls[c].legacy.query.v[k]
      ELSE LegacyPassThrough(c)

\* a "get" with data {a: 1, b: 3} and query {a: 7, b: 2} reached ajax with
\* the query {a: 1, b: 3} and no body
C10_Witness ==
  \E c \in CallIds :
    /\ calls[c].pc = "ajax"
    /\ calls[c].legacy.method = Str(<<"g", "e", "t">>)
    /\ Prop(calls[c].legacy.query, "a") = Num(7)
    /\ Prop(calls[c].legacy.data, "a") = Num(1)
    /\ Prop(calls[c].sent.query, "a") = Num(1)
    /\ Prop(calls[c].sent.query, "b") = Num(3)
    /\ calls[c].sent.data = Null


(***************************************************************************)
(* createApiUrl applied to service tables whose bases end in no, one or    *)
(* two separators                                                          *)
(***************************************************************************)
Host == <<"https://x.example">>
PushHost == <<"https://push.example">>

\* a base URL with n trailing separators
RECURSIVE WithSlashes(_, _)
WithSlashes(host, n) == IF n = 0 THEN host ELSE WithSlashes(host, n - 1) \o <<"/">>

TrailingSlashes == {0, 1, 2}

\* AV._config.serverURLs: api always configured, push configured or not
ServiceTables ==
  { OneKey("api", Str(WithSlashes(Host, n))) : n \in TrailingSlashes }
    \cup { Put(OneKey("api", Str(WithSlashes(Host, n))), "push",
               Str(WithSlashes(PushHost, m))) : n, m \in TrailingSlashes }

UrlServices == {U, Str(<<"api">>), Str(<<"push">>)}
UrlVersions == {U, Str(<<"2">>)}
UrlPaths == {U, EmptyStr, Str(<<"/", "things">>), Str(<<"/", "a", "/", "b">>)}

BuildUrl ==
  /\ out.op = "createApiUrl" /\ ~out.done
  /\ \E service \in UrlServices, version \in UrlVersions, path \in UrlPaths :
       out' = [op |-> "createApiUrl", done |-> TRUE, service |-> service,
               version |-> version, path |-> path,
               r |-> createApiUrl(AV, service, version, path)]
  /\ UNCHANGED <<AV, writes, calls, trace>>

InitUrl ==
  /\ AV \in {[ValidConfig EXCEPT !.serverURLs = t] : t \in ServiceTables}
  /\ writes = 0
  /\ calls = [c \in CallIds |-> IdleCall]
  /\ trace = [c \in CallIds |-> << >>]
  /\ out = [op |-> "createApiUrl", done |-> FALSE]

SpecUrl == InitUrl /\ [][BuildUrl]_vars

UrlBuilt == out.op = "createApiUrl" /\ out.done /\ out.r.ok

\* the base without its trailing separators
RECURSIVE StripSlashes(_)
StripSlashes(t) ==
  IF t # << >> /\ t[Len(t)] = "/" THEN StripSlashes(SubSeq(t, 1, Len(t) - 1)) ELSE t

\* the configured base of the service the url was built for
BaseOf(service) == Get(AV.serverURLs, IF service = U THEN "api" ELSE service.v[1]).v

\* base, one separator, version (1.1 when not given), path verbatim
ExpectedUrl(base, version, path) ==
  StripSlashes(base) \o <<"/">>
    \o (IF version = U THEN <<"1", ".", "1">> ELSE version.v)
    \o (IF path = U THEN << >> ELSE path.v)

\* C11: for every service with a configured base, with or without trailing
\* separators on the base, the url is the base, exactly one "/", the version
\* (1.1 by default) and the path as given; the service defaults to api.
C11_ExactlyOneSeparator ==
  UrlBuilt => out.r.url = ExpectedUrl(BaseOf(out.service), out.version, out.path)

\* what the code does hold to: the same for bases with at most one trailing
\* separator
C11_AtMostOneTrailing ==
  (UrlBuilt /\ Len(BaseOf(out.service)) - Len(StripSlashes(BaseOf(out.service))) <= 1)
    => out.r.url = ExpectedUrl(BaseOf(out.service), out.version, out.path)

(***************************************************************************)
(* Properties of the configuration a call reads, under Spec                *)
(***************************************************************************)
\* the headers setHeaders builds from AV as it was when request was called
\* (no signing, so the clock is not read)
HeadersAtDispatch(c) ==
  setHeadersSync(calls[c].avAt, Default(calls[c].desc.authOptions, Obj(EmptyMap)),
                 U, CHOOSE t \in Times : TRUE)

ConfigHeaders == {"X-LC-Id", "X-LC-Key", "X-LC-Hook-Key", "X-LC-Prod", "User-Agent", "X-LC-UA"}

\* C12: when AV is written after request was called and before ajax is, the
\* url, the configuration headers and the decision to ask for the current
\* user all come from AV as it was when request was called.
C12_SnapshotConsistency ==
  \A c \in CallIds :
    calls[c].lookupOff # U =>
      /\ calls[c].url =
           createApiUrl(calls[c].avAt, calls[c].desc.service, calls[c].desc.version,
                        calls[c].desc.path).url
      /\ \A h \in ConfigHeaders :
           Get(calls[c].headers, h) = Get(HeadersAtDispatch(c), h)
      /\ calls[c].lookupOff = Bool(Truthy(calls[c].avAt.disableCurrentUser))
      /\ ~ExplicitToken(c) =>
           (Lookups(c) = 1 <=> ~Truthy(calls[c].avAt.disableCurrentUser))

\* what the code does hold to: url and configuration headers are those of AV
\* at the call, whatever is written to AV afterwards
C12_SyncPartFromDispatch ==
  \A c \in CallIds :
    Dispatched(c) =>
      /\ calls[c].url =
           createApiUrl(calls[c].avAt, calls[c].desc.service, calls[c].desc.version,
                        calls[c].desc.path).url
      /\ \A h \in ConfigHeaders :
           Get(calls[c].headers, h) = Get(HeadersAtDispatch(c), h)

\* the authentication header ajax was given
SentAuth(c) ==
  IF "X-LC-Sign" \in DOMAIN calls[c].sent.headers
  THEN calls[c].sent.headers["X-LC-Sign"]
  ELSE Get(calls[c].sent.headers, "X-LC-Key")

\* C13: every call that reaches ajax carries an authentication header made
\* from a key that is set: the application key, or the master key with the
\* marker; never from an unset key.
C13_AuthFromConfiguredKey ==
  \A c \in CallIds :
    calls[c].sent.invoked =>
      \/ /\ Truthy(calls[c].avAt.applicationKey)
         /\ SentAuth(c) = calls[c].avAt.applicationKey
      \/ /\ Truthy(calls[c].avAt.masterKey)
         /\ SentAuth(c) = Str(ToText(calls[c].avAt.masterKey) \o <<",", "master">>)

\* C14: the headers ajax is given always hold X-LC-Key and never X-LC-Sign.
C14_PlainKeyTransmission ==
  \A c \in CallIds :
    calls[c].sent.invoked =>
      /\ "X-LC-Key" \in DOMAIN calls[c].sent.headers
      /\ "X-LC-Sign" \notin DOMAIN calls[c].sent.headers

\* two calls were sent, one with the master key and its marker, the other
\* with the application key, both in X-LC-Key
C14_Witness ==
  \E c, d \in CallIds :
    /\ calls[c].sent.invoked /\ calls[d].sent.invoked
    /\ HasMarker(Get(calls[c].sent.headers, "X-LC-Key"))
    /\ Get(calls[d].sent.headers, "X-LC-Key") = Str(<<"appKey">>)
    /\ calls[c].pc = "resolved" /\ calls[d].pc = "ajax"
====
